---- MODULE Spec2Model ----
(***************************************************************************)
(* Model of the flow engine of src/code.cpp: class Flow (addStep, run and  *)
(* its analytics counters) and class System (the flow registry).           *)
(*                                                                         *)
(* Three specifications share the variables:                                 *)
(*   Spec     one Flow object driven through addStep and run; every prompt *)
(*            of run, every execute() and every loop step is one action.   *)
(*   SysSpec  the registry: createFlow, deleteFlow, printFlows as main     *)
(*            calls them.                                                  *)
(*   LiveSpec Spec with the fairness under which run must return.          *)
(* Variables whose name starts with h are history variables: they record   *)
(* what the prompter answered and what execute() did; the program state    *)
(* an action produces never depends on them.  hBad alone appears in        *)
(* guards, where it bounds how often the environment misbehaves.           *)
(* run's writes to cout and cerr are not part of the flow's state.         *)
(* Every step appended to the flow is a new object, as in main, so the     *)
(* steps of a flow are pairwise distinct.                                  *)
(***************************************************************************)
EXTENDS Integers, Sequences, FiniteSets, TLC

\* ------------------------------------------------------------------ bounds
\* Longest step sequence of the flow.
MaxSteps == 2
\* Calls of run.
MaxRuns == 2
\* Over the flow's life: how many times the environment may fail an execute()
\* or answer "no" to "completed?" or "no" to both "run?" and "skip?".
MaxBad == 2
\* Flow objects the registry allocates.
MaxFlows == 3

\* ---------------------------------------------------------------- size_t
\* The loop index of run is a size_t: 64 bits, kept here as NumLimbs limbs of
\* LimbBits bits, least significant first, so that --i and ++i wrap exactly
\* as unsigned arithmetic does.
LimbBits == 16
NumLimbs == 4
LimbBase == 2 ^ LimbBits

SizeZero == [k \in 1..NumLimbs |-> 0]

\* SIZE_MAX, the value of (size_t)0 - 1.
SizeMax == [k \in 1..NumLimbs |-> LimbBase - 1]

\* ++i on a size_t: add one with carry, modulo 2^64.
SizeInc(x) ==
    [k \in 1..NumLimbs |->
        IF \A j \in 1..(k - 1) : x[j] = LimbBase - 1
        THEN (x[k] + 1) % LimbBase
        ELSE x[k]]

\* Mutant of SizeDec: the decrement is guarded at zero and stays there.
SizeDec_Saturating(x) ==
    IF \A k \in 1..NumLimbs : x[k] = 0
    THEN x
    ELSE [k \in 1..NumLimbs |->
            IF \A j \in 1..(k - 1) : x[j] = 0
            THEN (x[k] + LimbBase - 1) % LimbBase
            ELSE x[k]]

\* --i on a size_t: subtract one with borrow, modulo 2^64.
SizeDec(x) ==
    [k \in 1..NumLimbs |->
        IF \A j \in 1..(k - 1) : x[j] = 0
        THEN (x[k] + LimbBase - 1) % LimbBase
        ELSE x[k]]

\* i < n for a size_t i and a small n (n = steps.size() < LimbBase).
SizeLess(x, n) == (\A k \in 2..NumLimbs : x[k] = 0) /\ x[1] < n

\* The position of steps[i] in the 1-based sequence, for i < steps.size().
At(x) == x[1] + 1

\* ------------------------------------------------------------------ state
VARIABLES
    \* class Flow
    steps,                  \* vector<Step*> steps
    analytics,              \* map<Step*, StepAnalytics> analytics
    flowStartedCount,
    flowCompletedCount,
    totalErrorsAcrossFlows,
    \* Flow::run
    pc,                     \* where run stands; "idle" when no run is active
    i,                      \* size_t i of the for loop
    completed,              \* bool completed of the retry loop
    \* history of the current (or last) run
    hRun,                   \* "none", "active" or "returned"
    hBase,                  \* the counters when run began
    hPos,                   \* per position: what happened to that step
    hBad,                   \* environment failures and "no" answers so far
    hRedo,                  \* position an invalid round asked to re-present, or 0
    \* class System and main
    flows,                  \* vector<Flow*> flows
    flowName,               \* Flow::name of every Flow object ever allocated
    flowSteps,              \* steps.size() of every Flow object ever allocated
    released,               \* Flow objects deleted
    call,                   \* the last registry call
    outcome,                \* how it ended
    cout,                   \* what the call wrote to cout
    cerr,                   \* what the call wrote to cerr
    flowRuns,               \* calls of run on every Flow object ever allocated
    hDeletes,               \* history: how often each object was deleted
    \* the Step objects
    stepKind                \* the class and the members of every Step object

flowVars == <<steps, analytics, flowStartedCount, flowCompletedCount,
              totalErrorsAcrossFlows, pc, i, completed,
              hRun, hBase, hPos, hBad, hRedo>>
regVars == <<flows, flowName, flowSteps, released, call, outcome, cout, cerr,
             flowRuns, hDeletes>>
sysVars == <<regVars, stepKind>>
vars == <<flowVars, sysVars>>

\* struct StepAnalytics with its default member initialisers.
StepAnalytics ==
    [startedCount |-> 0, completedCount |-> 0, skippedCount |-> 0, errorCount |-> 0]

\* What the history records for one position of the step sequence.
PosFresh ==
    [rounds |-> 0, runYes |-> FALSE, lastExec |-> "none", fails |-> 0, compNo |-> 0,
     res |-> "pending"]

\* Flow names the user can type.
Names == {"a", "b"}

Init ==
    /\ steps = <<>>
    /\ analytics = <<>>
    /\ flowStartedCount = 0
    /\ flowCompletedCount = 0
    /\ totalErrorsAcrossFlows = 0
    /\ pc = "idle"
    /\ i = SizeZero
    /\ completed = FALSE
    /\ hRun = "none"
    /\ hBase = [analytics |-> <<>>, flowCompletedCount |-> 0, flowStartedCount |-> 0]
    /\ hPos = <<>>
    /\ hBad = 0
    /\ hRedo = 0
    /\ flows = <<>>
    /\ flowName = <<>>
    /\ flowSteps = <<>>
    /\ released = {}
    /\ call = <<"none">>
    /\ outcome = <<"none">>
    /\ cout = <<>>
    /\ cerr = <<>>
    /\ flowRuns = <<>>
    /\ hDeletes = <<>>
    /\ stepKind = <<>>

\* ------------------------------------------------------------- class Flow
\* The character a prompt reads from cin.
Responses == {"y", "Y", "n", "x"}

\* askUserToRunStep, askUserToSkipStep and askUserToCompleteStep return
\* (response == 'y' || response == 'Y').
Yes(response) == response \in {"y", "Y"}

\* The characters the three prompts take for a yes.
YesResponses == {r \in Responses : Yes(r)}

\* The Step* of a new-expression: an object that is no step of the flow yet.
NewStep == Len(steps) + 1

\* Flow::addStep: push_back, then analytics[step] default-constructs the entry
\* when the key is new and leaves an existing entry alone.
addStep(step) ==
    /\ pc = "idle"
    /\ Len(steps) < MaxSteps
    /\ steps' = Append(steps, step)
    /\ analytics' = IF step \in DOMAIN analytics
                    THEN analytics
                    ELSE [p \in (DOMAIN analytics) \cup {step} |->
                            IF p = step THEN StepAnalytics ELSE analytics[p]]
    /\ hRun' = "none"
    /\ UNCHANGED <<flowStartedCount, flowCompletedCount, totalErrorsAcrossFlows,
                   pc, i, completed, hBase, hPos, hBad, hRedo>>

\* ++analytics[steps[i]].<field>
Bump(field) == [analytics EXCEPT ![steps[At(i)]][field] = @ + 1]

\* run, line 98 and the initialisation of the for loop.
runBegin ==
    /\ pc = "idle"
    /\ flowStartedCount < MaxRuns
    /\ flowStartedCount' = flowStartedCount + 1
    /\ i' = SizeZero
    /\ pc' = "for"
    /\ hRun' = "active"
    /\ hBase' = [analytics |-> analytics, flowCompletedCount |-> flowCompletedCount,
                 flowStartedCount |-> flowStartedCount]
    /\ hPos' = [k \in 1..Len(steps) |-> PosFresh]
    /\ hRedo' = 0
    /\ UNCHANGED <<steps, analytics, flowCompletedCount, totalErrorsAcrossFlows,
                   completed, hBad>>

\* Mutant of forBody: the step is presented without being counted as started.
forBody_NotCounted ==
    /\ pc = "for"
    /\ SizeLess(i, Len(steps))
    /\ pc' = "askRun"
    /\ hPos' = [hPos EXCEPT ![At(i)].rounds = @ + 1]
    /\ UNCHANGED <<steps, analytics, flowStartedCount, flowCompletedCount,
                   totalErrorsAcrossFlows, i, completed, hRun, hBase, hBad, hRedo>>

\* The loop condition holds: line 101 counts the step as started and line 103
\* asks "run?".
forBody ==
    /\ pc = "for"
    /\ SizeLess(i, Len(steps))
    /\ analytics' = Bump("startedCount")
    /\ pc' = "askRun"
    /\ hPos' = [hPos EXCEPT ![At(i)].rounds = @ + 1]
    /\ UNCHANGED <<steps, flowStartedCount, flowCompletedCount, totalErrorsAcrossFlows,
                   i, completed, hRun, hBase, hBad, hRedo>>

\* Mutant of forExit: run returns without counting the flow as completed.
forExit_NotCounted ==
    /\ pc = "for"
    /\ ~SizeLess(i, Len(steps))
    /\ pc' = "idle"
    /\ hRun' = "returned"
    /\ UNCHANGED <<steps, analytics, flowStartedCount, flowCompletedCount,
                   totalErrorsAcrossFlows, i, completed, hBase, hPos, hBad, hRedo>>

\* The loop condition fails: line 128, and run returns.
forExit ==
    /\ pc = "for"
    /\ ~SizeLess(i, Len(steps))
    /\ flowCompletedCount' = flowCompletedCount + 1
    /\ pc' = "idle"
    /\ hRun' = "returned"
    /\ UNCHANGED <<steps, analytics, flowStartedCount, totalErrorsAcrossFlows,
                   i, completed, hBase, hPos, hBad, hRedo>>

\* Lines 76-81 and 103: the answer to "Do you want to run step i+1?".
askUserToRunStep(response) ==
    LET ans == Yes(response) IN
    /\ pc = "askRun"
    /\ IF ans
       THEN /\ completed' = FALSE
            /\ pc' = "execute"
            /\ hPos' = [hPos EXCEPT ![At(i)].runYes = TRUE]
       ELSE /\ pc' = "askSkip"
            /\ UNCHANGED <<completed, hPos>>
    /\ hRedo' = 0
    /\ UNCHANGED <<steps, analytics, flowStartedCount, flowCompletedCount,
                   totalErrorsAcrossFlows, i, hRun, hBase, hBad>>

\* Line 107, execute() returns normally: line 108 asks "completed?".
executeOk ==
    /\ pc = "execute"
    /\ pc' = "askComplete"
    /\ hPos' = [hPos EXCEPT ![At(i)].lastExec = "ok"]
    /\ UNCHANGED <<steps, analytics, flowStartedCount, flowCompletedCount,
                   totalErrorsAcrossFlows, i, completed, hRun, hBase, hBad, hRedo>>

\* Mutant of executeThrows: the handler retries without counting the error.
executeThrows_NotCounted ==
    /\ pc = "execute"
    /\ hBad < MaxBad
    /\ pc' = "execute"
    /\ hPos' = [hPos EXCEPT ![At(i)].lastExec = "threw", ![At(i)].fails = @ + 1]
    /\ hBad' = hBad + 1
    /\ UNCHANGED <<steps, analytics, flowStartedCount, flowCompletedCount,
                   totalErrorsAcrossFlows, i, completed, hRun, hBase, hRedo>>

\* Mutant of executeThrows: no handler, the exception leaves run.
executeThrows_Propagates ==
    /\ pc = "execute"
    /\ hBad < MaxBad
    /\ pc' = "idle"
    /\ hRun' = "none"
    /\ hPos' = [hPos EXCEPT ![At(i)].lastExec = "threw", ![At(i)].fails = @ + 1]
    /\ hBad' = hBad + 1
    /\ UNCHANGED <<steps, analytics, flowStartedCount, flowCompletedCount,
                   totalErrorsAcrossFlows, i, completed, hBase, hRedo>>

\* Mutant of executeThrows: the retry is counted as one more start of the step.
executeThrows_CountsStart ==
    /\ pc = "execute"
    /\ hBad < MaxBad
    /\ analytics' = [analytics EXCEPT ![steps[At(i)]].errorCount = @ + 1,
                                      ![steps[At(i)]].startedCount = @ + 1]
    /\ pc' = "execute"
    /\ hPos' = [hPos EXCEPT ![At(i)].lastExec = "threw", ![At(i)].fails = @ + 1]
    /\ hBad' = hBad + 1
    /\ UNCHANGED <<steps, flowStartedCount, flowCompletedCount, totalErrorsAcrossFlows,
                   i, completed, hRun, hBase, hRedo>>

\* The object whose execute() throws when the execute() of p fails: p itself,
\* or for a DisplayStep with a previous step the object that one fails in.
RECURSIVE Thrower(_)
Thrower(p) ==
    IF stepKind[p].class = "DisplayStep" /\ stepKind[p].previousStep # 0
    THEN Thrower(stepKind[p].previousStep)
    ELSE p

\* Mutant of executeThrows: the error is counted for the step whose execute()
\* threw, not for steps[i].
executeThrows_CountsThrower ==
    /\ pc = "execute"
    /\ hBad < MaxBad
    /\ analytics' = [analytics EXCEPT ![Thrower(steps[At(i)])].errorCount = @ + 1]
    /\ pc' = "execute"
    /\ hPos' = [hPos EXCEPT ![At(i)].lastExec = "threw", ![At(i)].fails = @ + 1]
    /\ hBad' = hBad + 1
    /\ UNCHANGED <<steps, flowStartedCount, flowCompletedCount, totalErrorsAcrossFlows,
                   i, completed, hRun, hBase, hRedo>>

\* Line 107, execute() throws FlowExecutionException: lines 113-117 count the
\* error and report it, and the while loop runs again as completed is false.
executeThrows ==
    /\ pc = "execute"
    /\ hBad < MaxBad
    /\ analytics' = Bump("errorCount")
    /\ pc' = "execute"
    /\ hPos' = [hPos EXCEPT ![At(i)].lastExec = "threw", ![At(i)].fails = @ + 1]
    /\ hBad' = hBad + 1
    /\ UNCHANGED <<steps, flowStartedCount, flowCompletedCount, totalErrorsAcrossFlows,
                   i, completed, hRun, hBase, hRedo>>

\* Mutant of askUserToCompleteStep: a "yes" ends the retry loop but is not
\* counted.
askUserToCompleteStep_NotCounted(response) ==
    LET ans == Yes(response) IN
    /\ pc = "askComplete"
    /\ completed' = ans
    /\ IF ans
       THEN /\ pc' = "inc"
            /\ hPos' = [hPos EXCEPT ![At(i)].res = "completed"]
            /\ hBad' = hBad
       ELSE /\ hBad < MaxBad
            /\ pc' = "execute"
            /\ hPos' = [hPos EXCEPT ![At(i)].compNo = @ + 1]
            /\ hBad' = hBad + 1
    /\ UNCHANGED <<steps, analytics, flowStartedCount, flowCompletedCount,
                   totalErrorsAcrossFlows, i, hRun, hBase, hRedo>>

\* Mutant of askUserToCompleteStep: the answer is not stored in completed, so
\* the retry loop never ends.
askUserToCompleteStep_NotStored(response) ==
    LET ans == Yes(response) IN
    /\ pc = "askComplete"
    /\ pc' = "execute"
    /\ IF ans
       THEN /\ hPos' = hPos
            /\ hBad' = hBad
       ELSE /\ hBad < MaxBad
            /\ hPos' = [hPos EXCEPT ![At(i)].compNo = @ + 1]
            /\ hBad' = hBad + 1
    /\ UNCHANGED <<steps, analytics, flowStartedCount, flowCompletedCount,
                   totalErrorsAcrossFlows, i, completed, hRun, hBase, hRedo>>

\* Mutant of askUserToCompleteStep: a "no" gives the step up and moves on.
askUserToCompleteStep_NoMovesOn(response) ==
    LET ans == Yes(response) IN
    /\ pc = "askComplete"
    /\ completed' = ans
    /\ IF ans
       THEN /\ analytics' = Bump("completedCount")
            /\ pc' = "inc"
            /\ hPos' = [hPos EXCEPT ![At(i)].res = "completed"]
            /\ hBad' = hBad
       ELSE /\ hBad < MaxBad
            /\ analytics' = analytics
            /\ pc' = "inc"
            /\ hPos' = [hPos EXCEPT ![At(i)].compNo = @ + 1]
            /\ hBad' = hBad + 1
    /\ UNCHANGED <<steps, flowStartedCount, flowCompletedCount, totalErrorsAcrossFlows,
                   i, hRun, hBase, hRedo>>

\* Lines 90-95 and 108-112: the answer to "Have you completed the action of
\* step i+1?".
\* A "no" leaves completed false, so the while loop calls execute() again.
askUserToCompleteStep(response) ==
    LET ans == Yes(response) IN
    /\ pc = "askComplete"
    /\ completed' = ans
    /\ IF ans
       THEN /\ analytics' = Bump("completedCount")
            /\ pc' = "inc"
            /\ hPos' = [hPos EXCEPT ![At(i)].res = "completed"]
            /\ hBad' = hBad
       ELSE /\ hBad < MaxBad
            /\ analytics' = analytics
            /\ pc' = "execute"
            /\ hPos' = [hPos EXCEPT ![At(i)].compNo = @ + 1]
            /\ hBad' = hBad + 1
    /\ UNCHANGED <<steps, flowStartedCount, flowCompletedCount, totalErrorsAcrossFlows,
                   i, hRun, hBase, hRedo>>

\* Mutant of askUserToSkipStep: a skipped step is counted as completed.
askUserToSkipStep_CountsCompleted(response) ==
    LET ans == Yes(response) IN
    /\ pc = "askSkip"
    /\ IF ans
       THEN /\ analytics' = Bump("completedCount")
            /\ i' = i
            /\ hPos' = [hPos EXCEPT ![At(i)].res = "skipped"]
            /\ hBad' = hBad
            /\ hRedo' = hRedo
       ELSE /\ hBad < MaxBad
            /\ analytics' = analytics
            /\ i' = SizeDec(i)
            /\ hPos' = hPos
            /\ hBad' = hBad + 1
            /\ hRedo' = At(i)
    /\ pc' = "inc"
    /\ UNCHANGED <<steps, flowStartedCount, flowCompletedCount, totalErrorsAcrossFlows,
                   completed, hRun, hBase>>

\* Mutant of askUserToSkipStep: a skipped step is counted as completed too.
askUserToSkipStep_CountsBoth(response) ==
    LET ans == Yes(response) IN
    /\ pc = "askSkip"
    /\ IF ans
       THEN /\ analytics' = [analytics EXCEPT ![steps[At(i)]].skippedCount = @ + 1,
                                              ![steps[At(i)]].completedCount = @ + 1]
            /\ i' = i
            /\ hPos' = [hPos EXCEPT ![At(i)].res = "skipped"]
            /\ hBad' = hBad
            /\ hRedo' = hRedo
       ELSE /\ hBad < MaxBad
            /\ analytics' = analytics
            /\ i' = SizeDec(i)
            /\ hPos' = hPos
            /\ hBad' = hBad + 1
            /\ hRedo' = At(i)
    /\ pc' = "inc"
    /\ UNCHANGED <<steps, flowStartedCount, flowCompletedCount, totalErrorsAcrossFlows,
                   completed, hRun, hBase>>

\* Lines 83-88 and 119-125: the answer to "Do you want to skip step i+1?".  A "no" is
\* the invalid round: --i, which the ++i of the for statement undoes.
askUserToSkipStep(response) ==
    LET ans == Yes(response) IN
    /\ pc = "askSkip"
    /\ IF ans
       THEN /\ analytics' = Bump("skippedCount")
            /\ i' = i
            /\ hPos' = [hPos EXCEPT ![At(i)].res = "skipped"]
            /\ hBad' = hBad
            /\ hRedo' = hRedo
       ELSE /\ hBad < MaxBad
            /\ analytics' = analytics
            /\ i' = SizeDec(i)
            /\ hPos' = hPos
            /\ hBad' = hBad + 1
            /\ hRedo' = At(i)
    /\ pc' = "inc"
    /\ UNCHANGED <<steps, flowStartedCount, flowCompletedCount, totalErrorsAcrossFlows,
                   completed, hRun, hBase>>

\* Mutant of forInc: the index is not advanced.
forInc_Stays ==
    /\ pc = "inc"
    /\ i' = i
    /\ pc' = "for"
    /\ UNCHANGED <<steps, analytics, flowStartedCount, flowCompletedCount,
                   totalErrorsAcrossFlows, completed, hRun, hBase, hPos, hBad, hRedo>>

\* The ++i of the for statement.
forInc ==
    /\ pc = "inc"
    /\ i' = SizeInc(i)
    /\ pc' = "for"
    /\ UNCHANGED <<steps, analytics, flowStartedCount, flowCompletedCount,
                   totalErrorsAcrossFlows, completed, hRun, hBase, hPos, hBad, hRedo>>

\* printAnalytics, lines 147-153: the average number of errors per completed
\* flow, as the fraction <<numerator, denominator>> the division is taken of.
AverageErrors ==
    IF flowCompletedCount > 0
    THEN <<totalErrorsAcrossFlows, flowCompletedCount>>
    ELSE <<"N/A">>

Next ==
    /\ \/ addStep(NewStep)
       \/ runBegin
       \/ forBody
       \/ forExit
       \/ \E response \in Responses : askUserToRunStep(response)
       \/ executeOk
       \/ executeThrows
       \/ \E response \in Responses : askUserToCompleteStep(response)
       \/ \E response \in Responses : askUserToSkipStep(response)
       \/ forInc
    /\ UNCHANGED sysVars

Spec == Init /\ [][Next]_vars

\* run is sequential code, so its own steps are taken when they can be.  The
\* environment is fair in that the prompter does not refuse both "run?" and
\* "skip?" for ever, execute() does not fail for ever, and the prompter does
\* not answer "completed? no" for ever.
Fairness ==
    /\ WF_vars(forBody /\ UNCHANGED sysVars)
    /\ WF_vars(forExit /\ UNCHANGED sysVars)
    /\ WF_vars(forInc /\ UNCHANGED sysVars)
    /\ SF_vars((\E r \in YesResponses : askUserToRunStep(r) \/ askUserToSkipStep(r))
                /\ UNCHANGED sysVars)
    /\ SF_vars(executeOk /\ UNCHANGED sysVars)
    /\ SF_vars((\E r \in YesResponses : askUserToCompleteStep(r)) /\ UNCHANGED sysVars)

\* The behaviours liveness is checked over: the flow is populated and run is
\* called on it once.  run reads no counter, so a later call takes the same
\* steps as the first.
LiveNext == Next /\ ((pc = "idle" /\ pc' # "idle") => flowStartedCount = 0)

LiveSpec == Init /\ [][LiveNext]_vars /\ Fairness

\* The behaviours in which the flow is populated before it is first run: no
\* step is appended once run has been called.
EarlyNext == Next /\ (steps' # steps => flowStartedCount = 0)

EarlySpec == Init /\ [][EarlyNext]_vars

\* ------------------------------------------------------- printAnalytics
\* The values a Step* can take: where operator new puts a step is up to the
\* allocator, so a step appended later can have the lower address.
Addresses == 1..MaxSteps

\* The keys of a std::map<Step*, ...> in the order its iteration visits them:
\* ascending by std::less<Step*>.
RECURSIVE MapOrder(_)
MapOrder(keys) ==
    IF keys = {}
    THEN <<>>
    ELSE LET least == CHOOSE p \in keys : \A q \in keys : p <= q
         IN <<least>> \o MapOrder(keys \ {least})

\* The line printAnalytics writes for the entry of step p, lines 141-144.
StepLine(p) ==
    <<"   Step ", p, ": Started ", analytics[p].startedCount,
      " times, Completed ", analytics[p].completedCount,
      " times, Skipped ", analytics[p].skippedCount,
      " times, Errors ", analytics[p].errorCount, " times.">>

\* The lines of the header, a. to c.
ReportHeader ==
    <<<<"Flow Analytics for '", "':">>,
      <<"a. Flow started ", flowStartedCount, " times.">>,
      <<"b. Flow completed ", flowCompletedCount, " times.">>,
      <<"c. Step-wise analytics:">>>>

\* Flow::printAnalytics: the header, one line per entry of the analytics map
\* in the order of the map, and the average.
printAnalytics ==
    LET order == MapOrder(DOMAIN analytics) IN
    /\ pc = "idle"
    /\ call' = <<"printAnalytics">>
    /\ outcome' = <<"returned">>
    /\ cout' = ReportHeader
                \o [k \in 1..Len(order) |-> StepLine(order[k])]
                \o <<<<"e. Average number of errors per flow completed: ",
                       AverageErrors>>>>
    /\ cerr' = <<>>
    /\ UNCHANGED <<flows, flowName, flowSteps, released, flowRuns, hDeletes, stepKind>>
    /\ UNCHANGED flowVars

\* A flow is populated with steps at any addresses, run once, and reported.
ReportNext ==
    \/ /\ \/ \E step \in Addresses \ {steps[k] : k \in 1..Len(steps)} : addStep(step)
          \/ flowStartedCount = 0 /\ runBegin
          \/ forBody
          \/ forExit
          \/ \E response \in Responses : askUserToRunStep(response)
          \/ executeOk
          \/ executeThrows
          \/ \E response \in Responses : askUserToCompleteStep(response)
          \/ \E response \in Responses : askUserToSkipStep(response)
          \/ forInc
       /\ UNCHANGED sysVars
    \/ printAnalytics

ReportSpec == Init /\ [][ReportNext]_vars

\* ------------------------------------------------------ the classes of steps
\* stepKind[p] is the object behind the Step* p: its class and its members.
TitleStep == [class |-> "TitleStep"]
FileInputStep == [class |-> "FileInputStep"]
DisplayStep(prevStep) == [class |-> "DisplayStep", previousStep |-> prevStep]
CalculusStep(s, inputs, op) ==
    [class |-> "CalculusStep", steps |-> s, inputValues |-> inputs, operation |-> op]

\* The null pointer.
NULL == 0

\* a / b on int, b # 0: the quotient is truncated towards zero.
IntDiv(a, b) ==
    LET abs(x) == IF x < 0 THEN 0 - x ELSE x
        q == abs(a) \div abs(b)
    IN IF (a < 0) = (b < 0) THEN q ELSE 0 - q

Min(a, b) == IF b < a THEN b ELSE a
Max(a, b) == IF a < b THEN b ELSE a

\* CalculusStep<int>::execute from line 344 on: the for loop with i = k and
\* the line that prints the result.  What is returned is what was written to
\* cout and cerr; every path ends in a normal return.
RECURSIVE CalculusLoop(_, _, _)
CalculusLoop(obj, result, k) ==
    LET v == obj.inputValues[k + 1]
        op == obj.operation
    IN
    IF k < obj.steps /\ k < Len(obj.inputValues)
    THEN CASE op = "+" -> CalculusLoop(obj, result + v, k + 1)
           [] op = "-" -> CalculusLoop(obj, result - v, k + 1)
           [] op = "*" -> CalculusLoop(obj, result * v, k + 1)
           [] op = "/" ->
                IF v # 0
                THEN CalculusLoop(obj, IntDiv(result, v), k + 1)
                ELSE [cout |-> <<>>,
                      cerr |-> <<"Error: Division by zero in CalculusStep.">>]
           [] op = "min" -> CalculusLoop(obj, Min(result, v), k + 1)
           [] op = "max" -> CalculusLoop(obj, Max(result, v), k + 1)
           [] OTHER -> [cout |-> <<>>,
                        cerr |-> <<"Error: Unsupported operation in CalculusStep.">>]
    ELSE [cout |-> <<"Calculus Result: ", result>>, cerr |-> <<>>]

\* steps[i]->execute() for the object behind p.  opens says whether the file
\* of a FileInputStep can be opened at this call.  The result is how the call
\* ended, the object whose execute() threw, and what was written.
RECURSIVE Execute(_, _)
Execute(p, opens) ==
    LET obj == stepKind[p] IN
    CASE obj.class = "TitleStep" ->
            [outcome |-> <<"returned">>, by |-> NULL,
             cout |-> <<"Title: ", "Subtitle: ">>, cerr |-> <<>>]
      [] obj.class = "FileInputStep" ->
            IF opens
            THEN [outcome |-> <<"returned">>, by |-> NULL,
                  cout |-> <<"Description: ", "<lines of the file>">>, cerr |-> <<>>]
            ELSE [outcome |-> <<"FlowExecutionException", "FileInputStep">>, by |-> p,
                  cout |-> <<"Description: ">>,
                  cerr |-> <<"Error: Unable to open file '", "'">>]
      [] obj.class = "DisplayStep" ->
            IF obj.previousStep # NULL
            THEN Execute(obj.previousStep, opens)
            ELSE [outcome |-> <<"FlowExecutionException", "DisplayStep">>, by |-> p,
                  cout |-> <<>>, cerr |-> <<>>]
      [] obj.class = "CalculusStep" ->
            IF obj.steps <= 0 \/ Len(obj.inputValues) < 2
            THEN [outcome |-> <<"returned">>, by |-> NULL, cout |-> <<>>,
                  cerr |-> <<"Error: Invalid configuration for CalculusStep.">>]
            ELSE LET r == CalculusLoop(obj, obj.inputValues[1], 1) IN
                 [outcome |-> <<"returned">>, by |-> NULL,
                  cout |-> r.cout, cerr |-> r.cerr]

\* e.what() of FlowExecutionException, as What below: the text or what the
\* freed buffer holds.
ExecutionWhat(stepName) ==
    {<<"Flow execution error in step: ", stepName>>, <<"<indeterminate>">>}

\* Line 107 with the class of steps[i] known: execute() runs, and run goes on
\* as executeOk or, through the handler of lines 113-117, as executeThrows.
execute ==
    \E opens \in BOOLEAN :
        LET r == Execute(steps[At(i)], opens) IN
        /\ pc = "execute"
        /\ IF r.outcome[1] = "returned"
           THEN /\ executeOk
                /\ cout' = r.cout
                /\ cerr' = r.cerr
           ELSE /\ executeThrows
                /\ cout' = r.cout \o <<"Retrying the step...">>
                /\ \E msg \in ExecutionWhat(r.outcome[2]) :
                        cerr' = r.cerr \o <<"Flow Execution Error: ">> \o msg
        /\ call' = <<"execute", steps[At(i)]>>
        /\ outcome' = r.outcome
        /\ UNCHANGED <<flows, flowName, flowSteps, released, flowRuns, hDeletes, stepKind>>

\* run with the classes of its steps known.
KindRun ==
    \/ /\ \/ runBegin
          \/ forBody
          \/ forExit
          \/ \E response \in Responses : askUserToRunStep(response)
          \/ \E response \in Responses : askUserToCompleteStep(response)
          \/ \E response \in Responses : askUserToSkipStep(response)
          \/ forInc
       /\ UNCHANGED sysVars
    \/ execute

\* The objects a DisplayStep can be given: a step of the flow or NULL.
PrevSteps == {NULL} \cup {steps[k] : k \in 1..Len(steps)}

\* newFlow->addStep(new TitleStep(...)), new FileInputStep(...) or
\* new DisplayStep(prevStep).
addStepOf(obj) ==
    /\ addStep(NewStep)
    /\ stepKind' = Append(stepKind, obj)
    /\ UNCHANGED regVars

\* The flow is populated and run is called on it once, as in LiveNext.
KindNext ==
    \/ addStepOf(TitleStep)
    \/ addStepOf(FileInputStep)
    \/ \E prevStep \in PrevSteps : addStepOf(DisplayStep(prevStep))
    \/ KindRun /\ ((pc = "idle" /\ pc' # "idle") => flowStartedCount = 0)

KindSpec == Init /\ [][KindNext]_vars

\* The CalculusStep<int> objects checked: steps, inputValues and operation.
CalculusSteps ==
    {CalculusStep(s, inputs, op) :
        s \in {-1, 0, 1, 2, 3},
        inputs \in {<<>>, <<6>>, <<6, 2>>, <<6, 0>>, <<6, 2, 0>>, <<0, -4, 3>>},
        op \in {"+", "-", "*", "/", "min", "max", "%"}}

\* A flow whose only step is a CalculusStep.
CalcInit ==
    /\ stepKind \in {<<obj>> : obj \in CalculusSteps}
    /\ steps = <<1>>
    /\ analytics = <<StepAnalytics>>
    /\ flowStartedCount = 0
    /\ flowCompletedCount = 0
    /\ totalErrorsAcrossFlows = 0
    /\ pc = "idle"
    /\ i = SizeZero
    /\ completed = FALSE
    /\ hRun = "none"
    /\ hBase = [analytics |-> <<>>, flowCompletedCount |-> 0, flowStartedCount |-> 0]
    /\ hPos = <<>>
    /\ hBad = 0
    /\ hRedo = 0
    /\ flows = <<>>
    /\ flowName = <<>>
    /\ flowSteps = <<>>
    /\ released = {}
    /\ call = <<"none">>
    /\ outcome = <<"none">>
    /\ cout = <<>>
    /\ cerr = <<>>
    /\ flowRuns = <<>>
    /\ hDeletes = <<>>

CalcSpec == CalcInit /\ [][KindRun]_vars

\* ----------------------------------------------------- class System, main
\* The names printFlows lists, in the order of the flows vector.
ListNames == [k \in 1..Len(flows) |-> flowName[flows[k]]]

\* Mutant of FindFlow: the last position whose flow has the name.
FindFlow_Last(name) ==
    IF \E k \in 1..Len(flows) : flowName[flows[k]] = name
    THEN CHOOSE k \in 1..Len(flows) :
            /\ flowName[flows[k]] = name
            /\ \A j \in (k + 1)..Len(flows) : flowName[flows[j]] # name
    ELSE 0

\* find_if over flows: the first position whose flow has the name, 0 for end().
FindFlow(name) ==
    IF \E k \in 1..Len(flows) : flowName[flows[k]] = name
    THEN CHOOSE k \in 1..Len(flows) :
            /\ flowName[flows[k]] = name
            /\ \A j \in 1..(k - 1) : flowName[flows[j]] # name
    ELSE 0

\* vector::erase(it)
Erase(seq, k) == [j \in 1..(Len(seq) - 1) |-> IF j < k THEN seq[j] ELSE seq[j + 1]]

\* e.what() of FlowNotFoundException returns c_str() of a temporary string
\* that is destroyed before the caller reads it: what is printed is the
\* intended text or whatever the freed buffer holds.
What(name) == {<<"Flow not found: ", name>>, <<"<indeterminate>">>}

\* An object of the heap: Flow object id itself (step = 0) or the step-th step
\* appended to it.
Obj(id, step) == [flow |-> id, step |-> step]

\* How often delete was applied to an object.
Deleted(d, o) == IF o \in DOMAIN d THEN d[o] ELSE 0

\* Mutant of FlowDtor: the destructor leaves the steps alone.
FlowDtor_KeepsSteps(id) == {}

\* Flow::~Flow: the objects the loop over steps deletes.
FlowDtor(id) == {Obj(id, k) : k \in 1..flowSteps[id]}

\* delete flow: the destructor runs, then the Flow object is released.
DeleteFlow(d, id) ==
    LET objs == FlowDtor(id) \cup {Obj(id, 0)} IN
    [o \in (DOMAIN d) \cup objs |-> Deleted(d, o) + (IF o \in objs THEN 1 ELSE 0)]

\* The body of System::~System: delete flow for every flow of the vector, in
\* its order.
RECURSIVE DeleteEach(_, _)
DeleteEach(d, seq) ==
    IF seq = <<>> THEN d ELSE DeleteEach(DeleteFlow(d, Head(seq)), Tail(seq))

\* main is inside its do-while loop: choice 5 was not taken yet.
InLoop == call # <<"exit">>

\* System::createFlow: a new Flow with the name and no steps joins the vector.
\* names and sizes are the Flow objects allocated before the call.
createFlow(names, sizes, name) ==
    /\ flowName' = Append(names, name)
    /\ flowSteps' = Append(sizes, 0)
    /\ flows' = Append(flows, Len(names) + 1)
    /\ flowRuns' = [id \in 1..(Len(names) + 1) |->
                        IF id \in DOMAIN flowRuns THEN flowRuns[id] ELSE 0]
    /\ UNCHANGED <<released, hDeletes>>

\* Mutant of deleteFlow: the result of find_if is erased without the test
\* against end(), which takes the last flow when the name is absent.
deleteFlow_Unchecked(name) ==
    LET it == IF FindFlow(name) # 0 THEN FindFlow(name) ELSE Len(flows) IN
    IF it # 0
    THEN /\ flows' = Erase(flows, it)
         /\ released' = released \cup {flows[it]}
         /\ hDeletes' = DeleteFlow(hDeletes, flows[it])
         /\ cout' = <<"Flow '", name, "' deleted from the system.">>
         /\ outcome' = <<"returned">>
         /\ UNCHANGED <<flowName, flowSteps, flowRuns>>
    ELSE /\ outcome' = <<"FlowNotFoundException", name>>
         /\ cout' = <<>>
         /\ UNCHANGED <<flows, flowName, flowSteps, released, flowRuns, hDeletes>>

\* System::deleteFlow: erase and delete the first flow of that name, or throw.
deleteFlow(name) ==
    LET it == FindFlow(name) IN
    IF it # 0
    THEN /\ flows' = Erase(flows, it)
         /\ released' = released \cup {flows[it]}
         /\ hDeletes' = DeleteFlow(hDeletes, flows[it])
         /\ cout' = <<"Flow '", name, "' deleted from the system.">>
         /\ outcome' = <<"returned">>
         /\ UNCHANGED <<flowName, flowSteps, flowRuns>>
    ELSE /\ outcome' = <<"FlowNotFoundException", name>>
         /\ cout' = <<>>
         /\ UNCHANGED <<flows, flowName, flowSteps, released, flowRuns, hDeletes>>

\* The calls of run made so far, over all Flow objects.
RECURSIVE SumRuns(_)
SumRuns(n) == IF n = 0 THEN 0 ELSE flowRuns[n] + SumRuns(n - 1)

TotalRuns == SumRuns(Len(flowRuns))

\* The steps main appends to newFlow, lines 477-487.
MainSteps == 11

\* main, case 1: newFlow is allocated and given MainSteps steps, then the
\* registry creates a flow of its own with the same name; newFlow is neither
\* registered nor deleted.  (Line 485 names Flow::getSteps, which the class
\* does not declare; the Display step is taken as appended like the others.)
mainCase1(name) ==
    /\ InLoop
    /\ Len(flows) + Cardinality(released) < MaxFlows
    /\ createFlow(Append(flowName, name), Append(flowSteps, MainSteps), name)
    /\ call' = <<"createFlow", name>>
    /\ outcome' = <<"returned">>
    /\ cout' = <<>>
    /\ cerr' = <<>>
    /\ UNCHANGED <<flowVars, stepKind>>

\* main, case 2: deleteFlow, and the handler that reports what it throws.
mainCase2(name) ==
    /\ InLoop
    /\ deleteFlow(name)
    /\ call' = <<"deleteFlow", name>>
    /\ IF outcome'[1] = "FlowNotFoundException"
       THEN \E msg \in What(name) : cerr' = <<"Error: ">> \o msg
       ELSE cerr' = <<>>
    /\ UNCHANGED <<flowVars, stepKind>>

\* main, case 4: System::printFlows.
mainCase4 ==
    /\ InLoop
    /\ call' = <<"printFlows">>
    /\ outcome' = <<"returned">>
    /\ cout' = <<"Available Flows:">> \o ListNames
    /\ cerr' = <<>>
    /\ UNCHANGED <<flows, flowName, flowSteps, released, flowRuns, hDeletes>>
    /\ UNCHANGED <<flowVars, stepKind>>

\* main, case 3: the flows are listed, the named flow is looked up and run;
\* an unknown name is reported on cerr.  The call of run is taken as a whole:
\* what it does to the steps of the flow is Next above, here it counts as one
\* more run of that Flow object.
mainCase3(name) ==
    LET it == FindFlow(name) IN
    /\ InLoop
    /\ TotalRuns < MaxRuns
    /\ call' = <<"run", name>>
    /\ cout' = <<"Available Flows:">> \o ListNames
    /\ IF it # 0
       THEN /\ flowRuns' = [flowRuns EXCEPT ![flows[it]] = @ + 1]
            /\ outcome' = <<"returned", flows[it]>>
            /\ cerr' = <<>>
       ELSE /\ flowRuns' = flowRuns
            /\ outcome' = <<"not found">>
            /\ cerr' = <<"Error: Flow '", name, "' not found.">>
    /\ UNCHANGED <<flows, flowName, flowSteps, released, hDeletes>>
    /\ UNCHANGED <<flowVars, stepKind>>

\* main, case 5 and the return from main: the loop ends and ~System deletes
\* every flow still in the vector, which is then destroyed itself.
mainCase5 ==
    /\ InLoop
    /\ call' = <<"exit">>
    /\ outcome' = <<"returned">>
    /\ cout' = <<"Exiting program.">>
    /\ cerr' = <<>>
    /\ hDeletes' = DeleteEach(hDeletes, flows)
    /\ released' = released \cup {flows[k] : k \in 1..Len(flows)}
    /\ flows' = <<>>
    /\ UNCHANGED <<flowName, flowSteps, flowRuns>>
    /\ UNCHANGED <<flowVars, stepKind>>

SysNext ==
    \/ \E name \in Names : mainCase1(name)
    \/ \E name \in Names : mainCase2(name)
    \/ \E name \in Names : mainCase3(name)
    \/ mainCase4
    \/ mainCase5

SysSpec == Init /\ [][SysNext]_vars

\* ------------------------------------------- the registry and its flows' steps
\* The registry used through its interface: createFlow, then addStep on a flow
\* of getFlows(), run and deleteFlow by name, and at last ~System.

\* The steps appended so far, over all Flow objects.
RECURSIVE SumSteps(_)
SumSteps(n) == IF n = 0 THEN 0 ELSE flowSteps[n] + SumSteps(n - 1)

TotalSteps == SumSteps(Len(flowSteps))

\* system.createFlow(name)
createFlowCall(name) ==
    /\ InLoop
    /\ Len(flows) + Cardinality(released) < MaxFlows
    /\ createFlow(flowName, flowSteps, name)
    /\ call' = <<"createFlow", name>>
    /\ outcome' = <<"returned">>
    /\ cout' = <<>>
    /\ cerr' = <<>>
    /\ UNCHANGED <<flowVars, stepKind>>

\* system.getFlows()[k - 1]->addStep(new ...): one more step object, owned by
\* that flow.
addStepCall(k) ==
    /\ InLoop
    /\ TotalSteps < MaxSteps
    /\ flowSteps' = [flowSteps EXCEPT ![flows[k]] = @ + 1]
    /\ call' = <<"addStep", flows[k]>>
    /\ outcome' = <<"returned">>
    /\ cout' = <<>>
    /\ cerr' = <<>>
    /\ UNCHANGED <<flows, flowName, released, flowRuns, hDeletes>>
    /\ UNCHANGED <<flowVars, stepKind>>

RegNext ==
    \/ \E name \in Names : createFlowCall(name)
    \/ \E k \in 1..Len(flows) : addStepCall(k)
    \/ \E name \in Names : mainCase2(name)
    \/ \E name \in Names : mainCase3(name)
    \/ mainCase5

RegSpec == Init /\ [][RegNext]_vars

\* ------------------------------------------------------ properties of run
Positions == 1..Len(steps)

\* The counters of the step at position k now, and when the run began.
Now(k) == analytics[steps[k]]
Before(k) == hBase.analytics[steps[k]]

Resolved(k) == hPos[k].res \in {"completed", "skipped"}

\* In this run the prompter answered "run? yes" and "completed? yes" at every
\* step, once each, and no execute() failed.
AllYes ==
    \A k \in Positions :
        /\ hPos[k].rounds = 1
        /\ hPos[k].runYes
        /\ hPos[k].fails = 0
        /\ hPos[k].compNo = 0

\* C1: a run in which the prompter always answers run=yes and completed=yes
\* and no execute() fails adds exactly 1 to flowCompleted and to every step's
\* completed, and leaves every step's skipped and errors as they were; on a
\* fresh flow the counters are flowCompleted=1, completed=1, skipped=0,
\* errors=0.
C1_AllYesRun ==
    (hRun = "returned" /\ AllYes) =>
        /\ flowCompletedCount = hBase.flowCompletedCount + 1
        /\ \A k \in Positions :
              /\ Now(k).completedCount = Before(k).completedCount + 1
              /\ Now(k).skippedCount = Before(k).skippedCount
              /\ Now(k).errorCount = Before(k).errorCount
        /\ hBase.flowStartedCount = 0 =>
              /\ flowCompletedCount = 1
              /\ \A k \in Positions :
                    /\ Now(k).completedCount = 1
                    /\ Now(k).skippedCount = 0
                    /\ Now(k).errorCount = 0

\* A fresh flow of two steps has returned from an all-yes run.
C1_Witness ==
    /\ hRun = "returned"
    /\ AllYes
    /\ Len(steps) = 2
    /\ hBase.flowStartedCount = 0

\* In this run the prompter answered "run? no" then "skip? yes" at every step.
AllSkip ==
    \A k \in Positions :
        /\ hPos[k].rounds = 1
        /\ ~hPos[k].runYes
        /\ hPos[k].res = "skipped"

\* C2: a run in which the prompter answers run=no, skip=yes for every step
\* returns with flowCompleted increased by 1, every step's skipped increased
\* by 1, every step's completed and errors unchanged, and no execute() called.
C2_AllSkipRun ==
    (hRun = "returned" /\ AllSkip) =>
        /\ flowCompletedCount = hBase.flowCompletedCount + 1
        /\ \A k \in Positions :
              /\ Now(k).skippedCount = Before(k).skippedCount + 1
              /\ Now(k).completedCount = Before(k).completedCount
              /\ Now(k).errorCount = Before(k).errorCount
              /\ hPos[k].lastExec = "none"

\* A flow of two steps has returned from an all-skip run.
C2_Witness ==
    /\ hRun = "returned"
    /\ AllSkip
    /\ Len(steps) = 2

\* C3: when the prompter answers run=yes for a step, its execute() fails k
\* times and then succeeds, and the prompter answers completed=yes, the step's
\* errors has grown by exactly k, its completed by exactly 1, its skipped by 0
\* and its started by at least 1; and "completed?" is only ever asked after an
\* execute() that returned normally.
C3_FailsThenCompletes ==
    /\ hRun # "none" =>
          \A k \in Positions :
              (hPos[k].res = "completed" /\ hPos[k].compNo = 0) =>
                  /\ Now(k).errorCount = Before(k).errorCount + hPos[k].fails
                  /\ Now(k).completedCount = Before(k).completedCount + 1
                  /\ Now(k).skippedCount = Before(k).skippedCount
                  /\ Now(k).startedCount >= Before(k).startedCount + 1
    /\ pc = "askComplete" => hPos[At(i)].lastExec = "ok"

\* A step failed twice, then succeeded and was confirmed completed.
C3_Witness ==
    /\ hRun # "none"
    /\ \E k \in Positions :
          /\ hPos[k].res = "completed"
          /\ hPos[k].compNo = 0
          /\ hPos[k].fails = 2

\* C4: after a full run every step's started has grown by at least 1, and
\* completed <= started holds for every step in every reachable state.
C4_StartedBounds ==
    /\ hRun = "returned" =>
          \A k \in Positions : Now(k).startedCount >= Before(k).startedCount + 1
    /\ \A p \in DOMAIN analytics :
          analytics[p].completedCount <= analytics[p].startedCount

\* The second run of a two-step flow has returned, a step having completed.
C4_Witness ==
    /\ hRun = "returned"
    /\ Len(steps) = 2
    /\ hBase.flowStartedCount = 1
    /\ \E k \in Positions : hPos[k].res = "completed"

RECURSIVE SumErrorsUpTo(_)
SumErrorsUpTo(k) ==
    IF k = 0 THEN 0 ELSE SumErrorsUpTo(k - 1) + analytics[steps[k]].errorCount

\* The errors counters of all steps of the flow, added up.
SumErrors == SumErrorsUpTo(Len(steps))

\* C5: the flow-level error accumulator equals the sum of the errors counters
\* of all steps in every reachable state, and the average-errors metric is
\* that sum over flowCompleted when flowCompleted > 0.
C5_AccumulatorIsSum ==
    /\ totalErrorsAcrossFlows = SumErrors
    /\ flowCompletedCount > 0 => AverageErrors = <<SumErrors, flowCompletedCount>>

\* No flow of the registry has the name.
Absent(name) == \A k \in 1..Len(flows) : flowName[flows[k]] # name

\* C6: deleteFlow of a name no registered flow has throws
\* FlowNotFoundException carrying that name and leaves the registry as it was:
\* the same flows in the same order, the same names listed, no flow deleted.
C6_DeleteMissing ==
    [][\A name \in Names :
          (call' = <<"deleteFlow", name>> /\ Absent(name)) =>
              /\ outcome' = <<"FlowNotFoundException", name>>
              /\ flows' = flows
              /\ ListNames' = ListNames
              /\ released' = released]_vars

\* deleteFlow threw on a registry that holds two flows.
C6_Witness ==
    /\ \E name \in Names :
          /\ call = <<"deleteFlow", name>>
          /\ outcome = <<"FlowNotFoundException", name>>
    /\ Len(flows) = 2

\* The step of run in which execute() throws.
Throws == pc = "execute" /\ hPos'[At(i)].fails = hPos[At(i)].fails + 1

\* C7: an exception thrown by execute() is caught inside run: the run stays
\* in the retry loop of the same step, it does not return or end, and
\* flowCompleted is incremented only once every step is completed or skipped.
C7_ErrorsAbsorbed ==
    /\ [][Throws =>
            /\ pc' = "execute"
            /\ i' = i
            /\ hRun' = "active"
            /\ flowCompletedCount' = flowCompletedCount]_vars
    /\ [][flowCompletedCount' # flowCompletedCount =>
            \A k \in Positions : Resolved(k)]_vars
    /\ [](hRun = "returned" => \A k \in Positions : Resolved(k))

\* A run has returned in which a step other than the last one threw.
C7_Witness ==
    /\ hRun = "returned"
    /\ \E k \in Positions : k < Len(steps) /\ hPos[k].fails >= 1

\* C8: after "run? no" and "skip? no" at step index i the same index is
\* presented again, also for i = 0 where --i wraps to SIZE_MAX; the step
\* sequence is only ever accessed inside 0..N-1; and while a step has only
\* seen invalid rounds its completed, skipped and errors are unchanged.
C8_InvalidRoundRedo ==
    /\ pc \in {"askRun", "execute", "askComplete", "askSkip"} =>
          SizeLess(i, Len(steps))
    /\ hRedo # 0 =>
          /\ pc \in {"inc", "for", "askRun"}
          /\ pc = "inc" =>
                /\ SizeLess(SizeInc(i), Len(steps))
                /\ At(SizeInc(i)) = hRedo
                /\ hRedo = 1 => i = SizeMax
          /\ pc \in {"for", "askRun"} =>
                /\ SizeLess(i, Len(steps))
                /\ At(i) = hRedo
    /\ hRun # "none" =>
          \A k \in Positions :
              (hPos[k].res = "pending" /\ ~hPos[k].runYes) =>
                  /\ Now(k).completedCount = Before(k).completedCount
                  /\ Now(k).skippedCount = Before(k).skippedCount
                  /\ Now(k).errorCount = Before(k).errorCount
                  /\ Now(k).startedCount = Before(k).startedCount + hPos[k].rounds

\* The first step is asked "run?" again after an invalid round.
C8_Witness ==
    /\ pc = "askRun"
    /\ hRedo = 1
    /\ i = SizeZero
    /\ hPos[1].rounds = 2

\* C9: each call of run increments flowStarted once, at its start before any
\* step is presented, and flowCompleted once, when it returns after the last
\* step is resolved; flowStarted - flowCompleted is 1 while a run is in
\* progress and 0 otherwise.
C9_StartedCompletedOnce ==
    /\ [](flowStartedCount - flowCompletedCount = IF pc = "idle" THEN 0 ELSE 1)
    /\ [][(pc = "idle" /\ pc' # "idle") =>
            /\ flowStartedCount' = flowStartedCount + 1
            /\ \A k \in DOMAIN hPos' : hPos'[k].rounds = 0]_vars
    /\ [][pc # "idle" =>
            /\ flowStartedCount' = flowStartedCount
            /\ pc' # "idle" => flowCompletedCount' = flowCompletedCount
            /\ pc' = "idle" =>
                  /\ flowCompletedCount' = flowCompletedCount + 1
                  /\ \A k \in Positions : Resolved(k)]_vars
    /\ [][(pc = "idle" /\ pc' = "idle") =>
            /\ flowStartedCount' = flowStartedCount
            /\ flowCompletedCount' = flowCompletedCount]_vars

\* The second run is in progress.
C9_Witness ==
    /\ pc # "idle"
    /\ flowStartedCount = 2
    /\ flowCompletedCount = 1
    /\ \E k \in Positions : Resolved(k)

\* C10: under Fairness every run returns: all steps are resolved and
\* flowCompleted is incremented for that run.
C10_RunReturns ==
    (pc # "idle") ~>
        /\ pc = "idle"
        /\ hRun = "returned"
        /\ flowCompletedCount = flowStartedCount
        /\ \A k \in Positions : Resolved(k)

\* A run returned after an invalid round and a failed execute().
C10_Witness ==
    /\ hRun = "returned"
    /\ \E k \in Positions : hPos[k].rounds >= 2
    /\ \E k \in Positions : hPos[k].fails >= 1

\* run is inside the retry loop of a step.
InRetryLoop == pc \in {"execute", "askComplete"}

\* C11: once "run?" was answered yes the retry loop is left only by a "yes" to
\* "completed?" after an execute() that returned: "skip?" is not asked for a
\* step that was accepted, a "no" to "completed?" leads to execute() again,
\* and while every execute() of the step has failed the run stays in the loop
\* with one more error per attempt and flowCompleted as it was when it began.
C11_RetryLoopExit ==
    /\ [][InRetryLoop =>
            \/ /\ InRetryLoop'
               /\ i' = i
               /\ flowCompletedCount' = flowCompletedCount
            \/ /\ pc = "askComplete"
               /\ hPos[At(i)].lastExec = "ok"
               /\ completed'
               /\ hPos'[At(i)].res = "completed"
               /\ pc' = "inc"]_vars
    /\ [][(pc = "askComplete" /\ ~completed') => pc' = "execute"]_vars
    /\ [](pc = "askSkip" => ~hPos[At(i)].runYes)
    /\ [](InRetryLoop => hPos[At(i)].runYes /\ hPos[At(i)].res = "pending")
    /\ []((pc = "execute" /\ hPos[At(i)].lastExec # "ok" /\ hPos[At(i)].compNo = 0) =>
            /\ Now(At(i)).errorCount = Before(At(i)).errorCount + hPos[At(i)].fails
            /\ Now(At(i)).completedCount = Before(At(i)).completedCount
            /\ flowCompletedCount = hBase.flowCompletedCount)

\* execute() is about to be called again after a failure and after a "no" to
\* "completed?".
C11_Witness ==
    /\ pc = "execute"
    /\ hPos[At(i)].fails >= 1
    /\ hPos[At(i)].compNo >= 1

\* C17: started of a step grows by one each time the step is presented for
\* the run/skip decision and at no other point: in a run it has grown by the
\* number of presentations, the first and one more after every invalid round
\* at that step, and no step of the retry loop changes it.
C17_StartedPerPresentation ==
    /\ [](hRun # "none" =>
            \A k \in Positions :
                Now(k).startedCount = Before(k).startedCount + hPos[k].rounds)
    /\ [][\A p \in DOMAIN analytics :
            analytics'[p].startedCount # analytics[p].startedCount =>
                /\ pc = "for"
                /\ pc' = "askRun"
                /\ p = steps[At(i)]
                /\ analytics'[p].startedCount = analytics[p].startedCount + 1]_vars
    /\ [][pc # "idle" =>
            \A k \in Positions :
                hPos'[k].rounds # hPos[k].rounds =>
                    /\ hPos'[k].rounds = hPos[k].rounds + 1
                    /\ hPos[k].rounds = 0 \/ hRedo = k]_vars
    /\ [][InRetryLoop =>
            \A p \in DOMAIN analytics :
                analytics'[p].startedCount = analytics[p].startedCount]_vars

\* A step was presented twice, an invalid round between, and completed after
\* a failed execute().
C17_Witness ==
    /\ hRun # "none"
    /\ \E k \in Positions :
          /\ hPos[k].rounds = 2
          /\ hPos[k].fails = 1
          /\ hPos[k].res = "completed"
          /\ Now(k).startedCount = Before(k).startedCount + 2

\* C18: in a run the steps are resolved in the order of the sequence, each
\* once: a step has been presented only if every step before it is resolved,
\* prompts and execute() are for a step that is not resolved, and what the
\* run did at a resolved step stays as it is until the run returns.
C18_InOrderOnce ==
    /\ [](hRun = "active" =>
            \A k \in Positions :
                hPos[k].rounds > 0 => \A j \in 1..(k - 1) : Resolved(j))
    /\ [](pc \in {"askRun", "askSkip", "execute", "askComplete"} =>
            /\ SizeLess(i, Len(steps))
            /\ ~Resolved(At(i)))
    /\ [][pc # "idle" =>
            \A k \in Positions : Resolved(k) => hPos'[k] = hPos[k]]_vars

\* The first step is resolved and the second is being asked about.
C18_Witness ==
    /\ hRun = "active"
    /\ pc = "askRun"
    /\ At(i) = 2
    /\ Resolved(1)
    /\ hPos[2].rounds = 1

\* C19: for a flow populated before its first run, whenever no run is in
\* progress completed + skipped of every step equals flowCompleted, and at all
\* times completed + skipped of a step is at most its started.
C19_ResolvedOncePerRun ==
    /\ pc = "idle" =>
          \A k \in Positions :
              Now(k).completedCount + Now(k).skippedCount = flowCompletedCount
    /\ \A p \in DOMAIN analytics :
          analytics[p].completedCount + analytics[p].skippedCount
              <= analytics[p].startedCount

\* Two runs have returned; a step was completed in one and skipped in the
\* other.
C19_Witness ==
    /\ pc = "idle"
    /\ flowCompletedCount = 2
    /\ \E k \in Positions :
          /\ Now(k).completedCount = 1
          /\ Now(k).skippedCount = 1

\* ------------------------------------------------- properties of the registry
\* seq2 is seq1 without its element at position k.
Without(seq1, k, seq2) ==
    /\ Len(seq2) = Len(seq1) - 1
    /\ \A j \in 1..Len(seq2) : seq2[j] = IF j < k THEN seq1[j] ELSE seq1[j + 1]

\* C13: the list is the flows created and not deleted, in creation order: a
\* create appends its flow at the end of the list, a successful delete takes
\* out exactly one flow, the earliest created of that name, and keeps the
\* order of the others, nothing else changes the list, and what is printed is
\* that list.
C13_ListOrder ==
    /\ [][call'[1] = "createFlow" =>
            /\ ListNames' = Append(ListNames, call'[2])
            /\ SubSeq(flows', 1, Len(flows)) = flows
            /\ \A k \in 1..Len(flows) : flows[k] < flows'[Len(flows')]
            /\ flows'[Len(flows')] \notin released]_vars
    /\ [][(call'[1] = "deleteFlow" /\ outcome'[1] = "returned") =>
            \E k \in 1..Len(flows) :
                /\ flowName[flows[k]] = call'[2]
                /\ \A j \in 1..Len(flows) :
                        flowName[flows[j]] = call'[2] => flows[k] <= flows[j]
                /\ Without(flows, k, flows')
                /\ Without(ListNames, k, ListNames')]_vars
    /\ [][call'[1] \notin {"createFlow", "deleteFlow", "exit"} => flows' = flows]_vars
    /\ [][call'[1] \in {"printFlows", "run"} =>
            cout' = <<"Available Flows:">> \o ListNames]_vars
    /\ [](\A j, k \in 1..Len(flows) : j < k => flows[j] < flows[k])
    /\ [](\A k \in 1..Len(flows) : flows[k] \notin released)

\* The earlier of two flows named "a" was deleted and a flow created between
\* them is still listed before the later one.
C13_Witness ==
    /\ call = <<"deleteFlow", "a">>
    /\ outcome = <<"returned">>
    /\ ListNames = <<"b", "a">>
    /\ \E id \in released : flowName[id] = "a" /\ id < flows[1]

\* C16: the flow that choice 3 finds under a name and runs is the flow the
\* steps were appended to when that name was created under choice 1.
C16_RunsAppendedFlow ==
    (call[1] = "run" /\ outcome[1] = "returned") =>
        flowSteps[outcome[2]] = MainSteps

C12_ReportInFlowOrder ==
    [][(call' = <<"printAnalytics">> /\ UNCHANGED flowVars) =>
            /\ Len(cout') = Len(ReportHeader) + Len(steps) + 1
            /\ \A k \in Positions :
                    cout'[Len(ReportHeader) + k] = StepLine(steps[k])]_vars

\* ------------------------------------------------- properties of the steps
\* The cases of a CalculusStep that cannot compute a result: steps is not
\* positive, there are fewer than two inputs, or "/" meets a zero among the
\* inputs it divides by.
CannotCompute(obj) ==
    \/ obj.steps <= 0
    \/ Len(obj.inputValues) < 2
    \/ /\ obj.operation = "/"
       /\ \E k \in 2..Len(obj.inputValues) : k <= obj.steps /\ obj.inputValues[k] = 0

\* C15: an execute() of a CalculusStep that cannot compute a result is a
\* failure to run: the attempt is counted in the step's errors and
\* "completed?" is not asked after it.
C15_CalculusFails ==
    \A k \in Positions :
        (CannotCompute(stepKind[steps[k]]) /\ hRun = "active") =>
            /\ hPos[k].lastExec # "ok"
            /\ Now(k).errorCount = Before(k).errorCount + hPos[k].fails
            /\ (call = <<"execute", steps[k]>> => outcome[1] = "FlowExecutionException")

\* C20: while run handles steps[i] only the analytics entry of steps[i]
\* changes; when the execute() of a DisplayStep at i fails inside the
\* execute() of the step it refers to, the error is counted for the
\* DisplayStep and the entry of the step referred to stays as it is.
C20_OnlyCurrentEntry ==
    /\ [][pc # "idle" =>
            \A p \in DOMAIN analytics :
                analytics'[p] # analytics[p] =>
                    SizeLess(i, Len(steps)) /\ p = steps[At(i)]]_vars
    /\ [][(pc = "execute" /\ outcome'[1] = "FlowExecutionException") =>
            LET cur == steps[At(i)] IN
            /\ analytics'[cur] =
                    [analytics[cur] EXCEPT !.errorCount = @ + 1]
            /\ \A p \in (DOMAIN analytics) \ {cur} : analytics'[p] = analytics[p]]_vars

\* The second step is a DisplayStep for the first, a FileInputStep that
\* was completed without an error; the file could not be opened when the
\* DisplayStep was executed.
C20_Witness ==
    /\ Len(steps) >= 2
    /\ stepKind[steps[1]] = FileInputStep
    /\ stepKind[steps[2]] = DisplayStep(steps[1])
    /\ hRun = "active"
    /\ hPos[1].res = "completed"
    /\ hPos[2].fails >= 1
    /\ outcome = <<"FlowExecutionException", "FileInputStep">>
    /\ analytics[steps[2]].errorCount = 1
    /\ analytics[steps[1]].errorCount = 0

====
